---- MODULE Spec2Model ----
(***************************************************************************)
(* A model of nanovea_roughness: the scan-file import and grid             *)
(* reconstruction (core.py, nanovea_data_from_scanpath), the plane fit and *)
(* the five roughness statistics (core.py, get_residuals and the *_calc    *)
(* functions) and the batch driver (__main__.py, main).                    *)
(*                                                                         *)
(* Floating-point values are modelled as records [nan, v]: NaN, or the     *)
(* integer v.  Values that the code divides (Simpson weights, means) are   *)
(* kept as numerator/denominator pairs.                                    *)
(***************************************************************************)
EXTENDS Integers, Sequences, FiniteSets, TLC

VARIABLES
    \* ---- nanovea_data_from_scanpath ----
    file,      \* the file: its name and its rows, each a sequence of text tokens
    gridspec,  \* how the file was generated (kept only to state properties)
    pc,        \* position inside nanovea_data_from_scanpath
    arr,       \* the array built by np.fromiter, then reshaped to triples
    out,       \* what the call returned or raised
    \* ---- get_residuals and the statistics ----
    zdata,     \* the array handed to the *_calc functions
    res,       \* what scipy.optimize.minimize answered last
    fit,       \* what get_residuals returned or raised
    stats,     \* what each *_calc function returned or raised
    \* ---- main ----
    files,     \* the .txt files of the working directory, in iteration order
    mpc,       \* position inside main
    idx,       \* number of files the loop has consumed
    data,      \* main's local: the z-grid of the current file
    rows,      \* the worksheet rows appended so far
    saved      \* whether wb.save has run

scanVars == <<file, gridspec, pc, arr, out>>
statVars == <<zdata, res, fit, stats>>
mainVars == <<files, mpc, idx, data, rows, saved>>
vars == <<file, gridspec, pc, arr, out, zdata, res, fit, stats,
          files, mpc, idx, data, rows, saved>>

-----------------------------------------------------------------------------
(* Bounds of the model. *)

MaxCount == 3
MaxZ == 2
MaxFiles == 2

-----------------------------------------------------------------------------
(* Floating-point values. *)

NaN == [nan |-> TRUE, v |-> 0]

Num(n) == [nan |-> FALSE, v |-> n]

\* IEEE ==: NaN equals nothing, itself included.
FEq(a, b) == ~a.nan /\ ~b.nan /\ a.v = b.v

FSub(a, b) == IF a.nan \/ b.nan THEN NaN ELSE Num(a.v - b.v)

Abs(n) == IF n < 0 THEN -n ELSE n

\* The sum of an integer-valued function over a finite domain.
RECURSIVE SumOver(_, _)
SumOver(S, f) ==
    IF S = {} THEN 0
    ELSE LET e == CHOOSE e \in S : TRUE IN f[e] + SumOver(S \ {e}, f)

\* f[1] + ... + f[n]
RECURSIVE SumTo(_, _)
SumTo(f, n) == IF n = 0 THEN 0 ELSE f[n] + SumTo(f, n - 1)

Max(S) == CHOOSE m \in S : \A n \in S : n <= m

Min(S) == CHOOSE m \in S : \A n \in S : m <= n

-----------------------------------------------------------------------------
(* Text tokens of a scan file.  kind "num" is the decimal text of the      *)
(* integer v; "nan" is the text nan, which float() accepts; "empty" is the *)
(* empty cell and "text" any other non-numeric cell.                       *)

NumTok(n) == [kind |-> "num", v |-> n]

NanTok == [kind |-> "nan", v |-> 0]

EmptyTok == [kind |-> "empty", v |-> 0]

TextTok == [kind |-> "text", v |-> 0]

\* float(val): the value, or ValueError for a cell that is not a number.
pyfloat(tok) ==
    CASE tok.kind = "num" -> [raised |-> FALSE, val |-> Num(tok.v)]
      [] tok.kind = "nan" -> [raised |-> FALSE, val |-> NaN]
      [] OTHER            -> [raised |-> TRUE,  val |-> NaN]

\* The value gen yields for one cell: float(val), or -1 on ValueError.
gen_val(tok) ==
    LET f == pyfloat(tok) IN IF f.raised THEN Num(-1) ELSE f.val

\* The cells of the first n rows, in order.
RECURSIVE FirstRows(_, _)
FirstRows(rs, n) == IF n = 0 THEN <<>> ELSE FirstRows(rs, n - 1) \o rs[n]

Flatten(rs) == FirstRows(rs, Len(rs))

\* gen(csvr) collected by np.fromiter: every cell of every row, in order.
gen(rs) ==
    LET cells == Flatten(rs) IN [k \in 1..Len(cells) |-> gen_val(cells[k])]

\* arr.reshape((arr.shape[0] // 3, 3)): numpy refuses a size that does not fit.
reshape3(a) ==
    IF (Len(a) \div 3) * 3 # Len(a)
    THEN [raised |-> "ValueError", tri |-> <<>>]
    ELSE [raised |-> "",
          tri |-> [k \in 1..(Len(a) \div 3) |->
                     [x |-> a[3*k - 2], y |-> a[3*k - 1], z |-> a[3*k]]]]

Raised(e) == [status |-> e, Filename |-> "", Counts |-> <<0, 0>>,
              Incs |-> <<NaN, NaN>>, ZData |-> <<>>]

\* zgrid[zgrid == -1] = np.nan
sentinel_to_nan(z) == IF FEq(z, Num(-1)) THEN NaN ELSE z

\* shape[0] // count with a numpy integer count: 0 (and a warning) for count 0.
floordiv(n, d) == IF d = 0 THEN 0 ELSE n \div d

\* Line 83: the first two triples share their x, so y ran in the inner loop.
y_scanned_first(t) == FEq(t[1].x, t[2].x)

\* Lines 87 and 109: the count of the outer axis, np.sum(arr == arr[0, c], axis=0)[c],
\* for the y column (y scanned first) or the x column.
outer_count(t) ==
    IF y_scanned_first(t)
    THEN Cardinality({k \in 1..Len(t) : FEq(t[k].y, t[1].y)})
    ELSE Cardinality({k \in 1..Len(t) : FEq(t[k].x, t[1].x)})

\* Lines 92 and 110: the count of the inner axis.
inner_count(t) == floordiv(Len(t), outer_count(t))

\* Whether numpy reshapes n values to (r, c): only when they fill it exactly.
reshape_fits_drop_tail(n, r, c) == r * c <= n

reshape_fits(n, r, c) == r * c = n

\* Line 105: arr[:, 2].reshape((yct, xct), order="F").T, so [i][j] = flat[j + i*yct].
zgrid_y_first_no_transpose(t, xct, yct) ==
    [i \in 1..xct |-> [j \in 1..yct |-> t[(i - 1) + (j - 1) * xct + 1].z]]

zgrid_y_first(t, xct, yct) ==
    [i \in 1..xct |-> [j \in 1..yct |-> t[(j - 1) + (i - 1) * yct + 1].z]]

\* Line 115: arr[:, 2].reshape((xct, yct), order="F"), so [i][j] = flat[i + j*xct].
zgrid_x_first(t, xct, yct) ==
    [i \in 1..xct |-> [j \in 1..yct |-> t[(i - 1) + (j - 1) * xct + 1].z]]

\* Line 123 on the whole grid.
mask_sentinel(zgrid) ==
    [i \in 1..Len(zgrid) |-> [j \in 1..Len(zgrid[i]) |-> sentinel_to_nan(zgrid[i][j])]]

\* Lines 83-130 on the (N, 3) array t.  Rows and columns are 1-based here,
\* 0-based in the code: arr[k, 0] is t[k + 1].x.
reconstruct(fname, t) ==
    LET N == Len(t) IN
    IF N < 2 THEN Raised("IndexError")                 \* arr[0, 0] or arr[1, 0]
    ELSE IF y_scanned_first(t)
    THEN LET xct == outer_count(t)
             yct == inner_count(t)
         IN  IF yct >= N THEN Raised("IndexError")      \* arr[yct, 0]
             ELSE IF ~reshape_fits(N, yct, xct) THEN Raised("ValueError")
             ELSE [status |-> "ok", Filename |-> fname,
                   Counts |-> <<xct, yct>>,
                   Incs |-> <<FSub(t[yct + 1].x, t[1].x), FSub(t[2].y, t[1].y)>>,
                   ZData |-> mask_sentinel(zgrid_y_first(t, xct, yct))]
    ELSE LET yct == outer_count(t)
             xct == inner_count(t)
         IN  IF xct >= N THEN Raised("IndexError")      \* arr[xct, 1]
             ELSE IF ~reshape_fits(N, xct, yct) THEN Raised("ValueError")
             ELSE [status |-> "ok", Filename |-> fname,
                   Counts |-> <<xct, yct>>,
                   Incs |-> <<FSub(t[2].x, t[1].x), FSub(t[xct + 1].y, t[1].y)>>,
                   ZData |-> mask_sentinel(zgrid_x_first(t, xct, yct))]

\* The whole call, as main uses it.
nanovea_data_from_scanpath(fname, rs) ==
    LET r == reshape3(gen(rs)) IN
    IF r.raised # "" THEN Raised(r.raised) ELSE reconstruct(fname, r.tri)

-----------------------------------------------------------------------------
(* The scan files the import is run on: a raster of xCount x yCount points *)
(* with uniform spacing, written in one of the two raster orders, split    *)
(* into rows in one of three ways, and optionally damaged: one cell        *)
(* replaced by another token, or the last cells of the file missing.       *)

Origins == {<<0, 0>>, <<2, 1>>}

Increments == {<<1, 1>>, <<-1, 2>>, <<2, -1>>}

Layouts == {"triples", "ragged", "single"}

OverrideToks == {EmptyTok, TextTok, NanTok, NumTok(-1), NumTok(0), NumTok(-2)}

Drops == 0..3

GridSpecs ==
    { g \in [xCount : 1..MaxCount, yCount : 1..MaxCount, origin : Origins,
             inc : Increments, order : {"y", "x"}, layout : Layouts,
             ovpos : 0..(3 * MaxCount * MaxCount), ovtok : OverrideToks,
             drop : Drops] :
        /\ g.ovpos <= 3 * g.xCount * g.yCount
        /\ g.ovpos = 0 => g.ovtok = EmptyTok
        /\ g.drop <= 3 * g.xCount * g.yCount
        /\ g.drop > 0 => g.ovpos = 0 }

\* The grid indices (i, j) of the k-th point written, k = 1..xCount*yCount.
PointAt(g, k) ==
    IF g.order = "y"
    THEN <<((k - 1) \div g.yCount) + 1, ((k - 1) % g.yCount) + 1>>
    ELSE <<((k - 1) % g.xCount) + 1, ((k - 1) \div g.xCount) + 1>>

\* Where point (i, j) is written: the inverse of PointAt.
IndexOf(g, i, j) ==
    IF g.order = "y" THEN (i - 1) * g.yCount + j ELSE (j - 1) * g.xCount + i

HeightOf(i, j) == (i - 1) * MaxCount + j

\* The token written at flat position p of the undamaged file.
CleanTok(g, p) ==
    LET ij  == PointAt(g, ((p - 1) \div 3) + 1)
        col == (p - 1) % 3
    IN  CASE col = 0 -> NumTok(g.origin[1] + (ij[1] - 1) * g.inc[1])
          [] col = 1 -> NumTok(g.origin[2] + (ij[2] - 1) * g.inc[2])
          [] OTHER   -> NumTok(HeightOf(ij[1], ij[2]))

TokensOf(g) ==
    [p \in 1..(3 * g.xCount * g.yCount - g.drop) |->
        IF p = g.ovpos THEN g.ovtok ELSE CleanTok(g, p)]

\* The z token of point (i, j) in the file.
ZTokOf(g, i, j) == TokensOf(g)[3 * IndexOf(g, i, j)]

\* The rows of a file holding the tokens toks: three cells a row ("triples"),
\* rows of two and four cells in turn ("ragged"), or one row ("single").
RowStart(layout, r) ==
    CASE layout = "triples" -> 3 * r - 2
      [] layout = "ragged"  -> IF r % 2 = 1 THEN 3 * r - 2 ELSE 3 * r - 3
      [] OTHER              -> 1

RowCount(layout, n) ==
    CASE layout = "triples" -> (n + 2) \div 3
      [] layout = "ragged"  -> 2 * (n \div 6) + (IF n % 6 = 0 THEN 0 ELSE IF n % 6 <= 2 THEN 1 ELSE 2)
      [] OTHER              -> IF n = 0 THEN 0 ELSE 1

SplitRows(toks, layout) ==
    [r \in 1..RowCount(layout, Len(toks)) |->
        LET last == IF layout = "single" THEN Len(toks) ELSE RowStart(layout, r + 1) - 1
        IN  SubSeq(toks, RowStart(layout, r), IF last < Len(toks) THEN last ELSE Len(toks))]

FileOf(g) == SplitRows(TokensOf(g), g.layout)

\* The damage, if any, is confined to z cells: every coordinate is as generated.
CoordsIntact(g) == g.drop = 0 /\ (g.ovpos = 0 \/ g.ovpos % 3 = 0)

-----------------------------------------------------------------------------
(* Values the variables of the other parts hold while one part runs. *)

NoOut == Raised("")

NoRes == [x |-> <<0, 0, 0>>, success |-> FALSE]

NoFit == [status |-> "", resids |-> <<>>, x |-> <<0, 0, 0>>]

NoStat == [status |-> "", num |-> 0, den |-> 0]

NoStats == [s \in {"Sa", "Sq", "Sz", "Sp", "Sv"} |-> NoStat]

NoFile == [name |-> "", rows |-> <<>>]

ScanIdle == file = NoFile /\ gridspec = <<>> /\ pc = "idle" /\ arr = <<>> /\ out = NoOut

StatIdle == zdata = <<>> /\ res = NoRes /\ fit = NoFit /\ stats = NoStats

MainIdle ==
    files = <<>> /\ mpc = "idle" /\ idx = 0 /\ data = <<>> /\ rows = <<>> /\ saved = FALSE

-----------------------------------------------------------------------------
(* nanovea_data_from_scanpath, step by step. *)

ScanInit ==
    /\ gridspec \in GridSpecs
    /\ file = [name |-> "scan.txt", rows |-> FileOf(gridspec)]
    /\ pc = "open"
    /\ arr = <<>>
    /\ out = NoOut
    /\ StatIdle
    /\ MainIdle

\* Lines 62-78: read the file through gen into a flat array.
ReadCsv ==
    /\ pc = "open"
    /\ arr' = gen(file.rows)
    /\ pc' = "read"
    /\ UNCHANGED <<file, gridspec, out, statVars, mainVars>>

\* Line 81: reshape into x/y/z columns.
Reshape ==
    /\ pc = "read"
    /\ LET r == reshape3(arr) IN
         IF r.raised # ""
         THEN /\ out' = Raised(r.raised)
              /\ pc' = "raised_reshape"
              /\ arr' = arr
         ELSE /\ arr' = r.tri
              /\ pc' = "shaped"
              /\ out' = out
    /\ UNCHANGED <<file, gridspec, statVars, mainVars>>

\* Lines 83-130: infer the raster order and the counts, build the grid.
Reconstruct ==
    /\ pc = "shaped"
    /\ out' = reconstruct(file.name, arr)
    /\ pc' = IF out'.status = "ok" THEN "returned" ELSE "raised_reconstruct"
    /\ UNCHANGED <<file, gridspec, arr, statVars, mainVars>>

ScanNext == ReadCsv \/ Reshape \/ Reconstruct

ScanSpec == ScanInit /\ [][ScanNext]_vars

ScanDone == pc \in {"returned", "raised_reshape", "raised_reconstruct"}

-----------------------------------------------------------------------------
(* Properties of the import. *)

\* The same dataset written in the other raster order: every point keeps its
\* tokens, the damaged cell included.
Flip(g) ==
    LET o  == IF g.order = "y" THEN "x" ELSE "y"
        h  == [g EXCEPT !.order = o]
        ij == PointAt(g, ((g.ovpos - 1) \div 3) + 1)
    IN  IF g.ovpos = 0 THEN h
        ELSE [h EXCEPT !.ovpos = 3 * (IndexOf(h, ij[1], ij[2]) - 1) + ((g.ovpos - 1) % 3) + 1]

Malformed(rs) ==
    \/ \E r \in 1..Len(rs) : Len(rs[r]) # 3
    \/ Len(Flatten(rs)) % 3 # 0

\* The inferred outer count is zero or does not divide the number of triples.
BadCounts(t) ==
    /\ Len(t) >= 2
    /\ \/ outer_count(t) = 0
       \/ inner_count(t) = 0
       \/ Len(t) % outer_count(t) # 0

\* C1: every generated xCount x yCount raster, in either raster order and for every
\* pair of positive counts, is imported with Counts = [xCount, yCount] and
\* Incs = [xIncrement, yIncrement].
C1_RoundTripShape ==
    (ScanDone /\ CoordsIntact(gridspec)) =>
        /\ out.status = "ok"
        /\ out.Counts = <<gridspec.xCount, gridspec.yCount>>
        /\ out.Incs = <<Num(gridspec.inc[1]), Num(gridspec.inc[2])>>

\* C2: with at least two points on each axis, the y-fastest and the x-fastest file
\* of one dataset give the same counts, increments and z-grid, and cell [i][j] of
\* the z-grid is the height of the point with the i-th x and the j-th y.
C2_OrdersAgree ==
    (ScanDone /\ CoordsIntact(gridspec) /\ gridspec.xCount >= 2 /\ gridspec.yCount >= 2) =>
        /\ out.status = "ok"
        /\ out = nanovea_data_from_scanpath("scan.txt", FileOf(Flip(gridspec)))
        /\ \A i \in 1..gridspec.xCount : \A j \in 1..gridspec.yCount :
             LET tok == ZTokOf(gridspec, i, j) IN
               (tok.kind = "num" /\ tok.v # -1) => out.ZData[i][j] = Num(tok.v)

C2_Witness ==
    /\ pc = "returned"
    /\ CoordsIntact(gridspec)
    /\ gridspec.xCount = 2 /\ gridspec.yCount = 3
    /\ gridspec.order = "y"
    /\ y_scanned_first(arr)
    /\ ~y_scanned_first(reshape3(gen(FileOf(Flip(gridspec)))).tri)
    /\ out.ZData[2][1] = Num(HeightOf(2, 1))

\* C6: a file with a row that does not hold exactly three cells, or whose cell
\* count is not a multiple of 3, is rejected: no grid is produced from it.
C6_MalformedRejected ==
    (ScanDone /\ Malformed(file.rows)) => out.status # "ok"

C9_MissingIffNonNumeric ==
    (pc = "returned" /\ CoordsIntact(gridspec)) =>
        \A i \in 1..Len(out.ZData) : \A j \in 1..Len(out.ZData[i]) :
            out.ZData[i][j].nan <=> ZTokOf(gridspec, i, j).kind # "num"

-----------------------------------------------------------------------------
(* The plane fit. *)

\* The index pairs of a grid.
Cells(a) == UNION {{<<i, j>> : j \in 1..Len(a[i])} : i \in 1..Len(a)}

\* plane_array: params[0] * X + params[1] * Y + params[2] over the index grid of a
\* (np.meshgrid(..., indexing="ij"); indices are 0-based in the code).
plane_array(params, a) ==
    [i \in 1..Len(a) |-> [j \in 1..Len(a[i]) |->
        params[1] * (i - 1) + params[2] * (j - 1) + params[3]]]

\* fit_resids: arr - plane_array(params, arr); NaN stays NaN.
fit_resids(params, a) ==
    LET plane == plane_array(params, a) IN
    [i \in 1..Len(a) |-> [j \in 1..Len(a[i]) |-> FSub(a[i][j], Num(plane[i][j]))]]

\* np.nansum of the squares of a grid: a NaN counts as zero.
nansum_sq(r) ==
    SumTo([i \in 1..Len(r) |->
             SumTo([j \in 1..Len(r[i]) |->
                      IF r[i][j].nan THEN 0 ELSE r[i][j].v * r[i][j].v], Len(r[i]))],
          Len(r))

\* fit_func: the sum of squared distances from the data to the plane.
fit_func(params, a) == nansum_sq(fit_resids(params, a))

ValidValues(a) == {a[ij[1]][ij[2]].v : ij \in {c \in Cells(a) : ~a[c[1]][c[2]].nan}}

\* The plane parameters the model lets the minimizer visit.
ParamSpace(a) ==
    LET top == IF ValidValues(a) = {} THEN 0 ELSE Max(ValidValues(a) \cup {0})
    IN  (-1..1) \X (-1..1) \X (-1..(top + 1))

\* scipy.optimize.minimize(fit_func, [0, 0, 0], args=(arr,), method="Nelder-Mead"):
\* with success, a minimizer of fit_func; without (the iteration limit was hit),
\* the best vertex so far, which is no worse than the initial guess.
MinimizeOutcomes(a) ==
    {r \in [x : ParamSpace(a), success : BOOLEAN] :
        /\ fit_func(r.x, a) <= fit_func(<<0, 0, 0>>, a)
        /\ r.success => \A o \in ParamSpace(a) : fit_func(r.x, a) <= fit_func(o, a)}

\* get_residuals, given what minimize answered: line 191 returns the residuals and
\* the parameters whatever res.success says.
get_residuals(a, r) == [status |-> "ok", resids |-> fit_resids(r.x, a), x |-> r.x]

-----------------------------------------------------------------------------
(* The roughness statistics.  A statistic is [status, num, den]: status "ok" *)
(* for a number, "nan" for a returned NaN.  Sa is num / (144 * den), Sq is   *)
(* sqrt(num / den), and Sz, Sp and Sv are num (den is 1).                    *)

\* np.sum(np.isfinite(resids))
valid_count_all_cells(r) == Cardinality(Cells(r))

valid_count(r) == Cardinality({ij \in Cells(r) : ~r[ij[1]][ij[2]].nan})

\* np.nan_to_num(np.abs(resids))
nan_to_num_abs(r) ==
    [i \in 1..Len(r) |-> [j \in 1..Len(r[i]) |->
        IF r[i][j].nan THEN 0 ELSE Abs(r[i][j].v)]]

\* 12 * scipy.integrate.simps(y) for unit spacing and even="avg": Simpson's rule
\* on an odd number of samples; on an even number the mean of Simpson on the
\* first N-1 samples plus a trapezoid on the last interval, and of a trapezoid
\* on the first interval plus Simpson on the last N-1 samples.
simps12(y) ==
    LET N == Len(y)
        \* Simpson's rule on the samples first, first + 1, ..., first + 2 * pairs
        simpson(first, pairs) ==
            SumTo([m \in 1..pairs |->
                     y[2*m + first - 2] + 4 * y[2*m + first - 1] + y[2*m + first]], pairs)
    IN  IF N % 2 = 1
        THEN 4 * simpson(1, (N - 1) \div 2)
        ELSE 3 * (y[N] + y[N - 1] + y[1] + y[2]) + 2 * (simpson(1, (N - 2) \div 2) + simpson(2, (N - 2) \div 2))

\* simps(simps(a)): along the last axis, then along the remaining one (times 144).
simps_simps144(a) == simps12([i \in 1..Len(a) |-> simps12(a[i])])

NanStat == [status |-> "nan", num |-> 0, den |-> 0]

\* np.nanmax and np.nanmin: NaN (and a warning) when every cell is NaN.
ResidValues(r) == {r[ij[1]][ij[2]].v : ij \in {c \in Cells(r) : ~r[c[1]][c[2]].nan}}

Sa_calc(a, r) ==
    LET resids == get_residuals(a, r).resids
        n == valid_count(resids)
    IN  IF n = 0 THEN NanStat      \* 0.0 / 0 is nan in numpy
        ELSE [status |-> "ok", num |-> simps_simps144(nan_to_num_abs(resids)), den |-> n]

Sq_calc(a, r) ==
    LET resids == get_residuals(a, r).resids
        n == valid_count(resids)
    IN  IF n = 0 THEN NanStat      \* sqrt(0.0 / 0) is nan
        ELSE [status |-> "ok", num |-> nansum_sq(resids), den |-> n]

Sz_calc(a, r) ==
    LET vals == ResidValues(get_residuals(a, r).resids)
    IN  IF vals = {} THEN NanStat
        ELSE [status |-> "ok", num |-> Max(vals) - Min(vals), den |-> 1]

Sp_calc(a, r) ==
    LET vals == ResidValues(get_residuals(a, r).resids)
    IN  IF vals = {} THEN NanStat
        ELSE [status |-> "ok", num |-> Max(vals), den |-> 1]

Sv_calc(a, r) ==
    LET vals == ResidValues(get_residuals(a, r).resids)
    IN  IF vals = {} THEN NanStat
        ELSE [status |-> "ok", num |-> Abs(Min(vals)), den |-> 1]

-----------------------------------------------------------------------------
(* The statistics run on one grid, in the order main calls them. *)

Shapes == {<<1, 1>>, <<1, 2>>, <<2, 1>>, <<2, 2>>, <<1, 3>>, <<3, 1>>}

ZValues == {NaN} \cup {Num(v) : v \in 0..MaxZ}

Grids == UNION {[1..sh[1] -> [1..sh[2] -> ZValues]] : sh \in Shapes}

StatInit ==
    /\ zdata \in Grids
    /\ res = NoRes
    /\ fit = NoFit
    /\ stats = NoStats
    /\ ScanIdle
    /\ MainIdle

\* get_residuals(arr): minimize answers, the residuals are returned.
GetResiduals ==
    /\ fit.status = ""
    /\ res' \in MinimizeOutcomes(zdata)
    /\ fit' = get_residuals(zdata, res')
    /\ UNCHANGED <<zdata, stats, scanVars, mainVars>>

Called(s) == stats[s].status # ""

\* Each *_calc fits again; minimize is deterministic, so its answer is res again.
CallSa ==
    /\ fit.status # "" /\ ~Called("Sa")
    /\ stats' = [stats EXCEPT !["Sa"] = Sa_calc(zdata, res)]
    /\ UNCHANGED <<zdata, res, fit, scanVars, mainVars>>

CallSz ==
    /\ Called("Sa") /\ ~Called("Sz")
    /\ stats' = [stats EXCEPT !["Sz"] = Sz_calc(zdata, res)]
    /\ UNCHANGED <<zdata, res, fit, scanVars, mainVars>>

CallSq ==
    /\ Called("Sz") /\ ~Called("Sq")
    /\ stats' = [stats EXCEPT !["Sq"] = Sq_calc(zdata, res)]
    /\ UNCHANGED <<zdata, res, fit, scanVars, mainVars>>

CallSp ==
    /\ Called("Sq") /\ ~Called("Sp")
    /\ stats' = [stats EXCEPT !["Sp"] = Sp_calc(zdata, res)]
    /\ UNCHANGED <<zdata, res, fit, scanVars, mainVars>>

CallSv ==
    /\ Called("Sp") /\ ~Called("Sv")
    /\ stats' = [stats EXCEPT !["Sv"] = Sv_calc(zdata, res)]
    /\ UNCHANGED <<zdata, res, fit, scanVars, mainVars>>

StatNext == GetResiduals \/ CallSa \/ CallSz \/ CallSq \/ CallSp \/ CallSv

StatSpec == StatInit /\ [][StatNext]_vars

-----------------------------------------------------------------------------
(* Properties of the fit and of the statistics. *)

MissingCells(a) == {ij \in Cells(a) : a[ij[1]][ij[2]].nan}

ValidCells(a) == Cells(a) \ MissingCells(a)

\* The residual of a valid cell under parameters p, from the definition
\* z - (a*i + b*j + c) with 0-based i and j.
ResidualAt(p, a, ij) ==
    a[ij[1]][ij[2]].v - (p[1] * (ij[1] - 1) + p[2] * (ij[2] - 1) + p[3])

SquaredResiduals(p, a) ==
    SumOver(ValidCells(a), [ij \in ValidCells(a) |->
        ResidualAt(p, a, ij) * ResidualAt(p, a, ij)])

\* C3: on every grid with a valid cell, Sz = Sp + Sv.
C3_SzIsSpPlusSv ==
    (Called("Sz") /\ Called("Sp") /\ Called("Sv") /\ ValidCells(zdata) # {}) =>
        /\ stats["Sz"].status = "ok"
        /\ stats["Sz"].num = stats["Sp"].num + stats["Sv"].num

\* C4: a grid of n cells with k missing gives Sa and Sq the denominator n - k,
\* and a missing cell adds nothing to the sum of squared residuals, to the
\* objective of the fit, or to the extrema behind Sz, Sp and Sv.
C4_MissingExcluded ==
    LET n == Cardinality(Cells(zdata))
        k == Cardinality(MissingCells(zdata))
        rv == {ResidualAt(res.x, zdata, ij) : ij \in ValidCells(zdata)}
    IN  /\ Called("Sa") => stats["Sa"].den = n - k
        /\ Called("Sq") => stats["Sq"].den = n - k
        /\ (Called("Sq") /\ k < n) => stats["Sq"].num = SquaredResiduals(res.x, zdata)
        /\ (fit.status # "" /\ ~Called("Sa")) =>
             \A p \in ParamSpace(zdata) : fit_func(p, zdata) = SquaredResiduals(p, zdata)
        /\ (Called("Sz") /\ k < n) => stats["Sz"].num = Max(rv) - Min(rv)
        /\ (Called("Sp") /\ k < n) => stats["Sp"].num = Max(rv)
        /\ (Called("Sv") /\ k < n) => stats["Sv"].num = Abs(Min(rv))

\* The 2x2 grid with one missing cell: the denominator of Sq is 3.
C4_Witness ==
    /\ Called("Sv")
    /\ Len(zdata) = 2 /\ Len(zdata[1]) = 2
    /\ Cardinality(MissingCells(zdata)) = 1
    /\ stats["Sq"].den = 3
    /\ stats["Sa"].den = 3

\* C5: on a grid without a valid cell each statistic fails with StatisticsError
\* and returns nothing.
C5_StatisticsError ==
    \A s \in {"Sa", "Sq", "Sz", "Sp", "Sv"} :
        (Called(s) /\ ValidCells(zdata) = {}) => stats[s].status = "StatisticsError"

\* C8: when the minimizer did not converge get_residuals fails with FitError
\* and returns no residuals.
C8_FitError ==
    (fit.status # "" /\ ~res.success) => fit.status = "FitError"

-----------------------------------------------------------------------------
(* main: one worksheet row per .txt file of the working directory. *)

Names == <<"a.txt", "b.txt", "c.txt", "d.txt">>

\* A 2x2 scan, y running fastest, with one point that was not measured.
GoodScan ==
    << <<NumTok(0), NumTok(0), NumTok(0)>>,
       <<NumTok(0), NumTok(1), NumTok(0)>>,
       <<NumTok(1), NumTok(0), TextTok>>,
       <<NumTok(1), NumTok(1), NumTok(1)>> >>

\* The same scan cut short inside its last triple.
TruncatedScan ==
    << <<NumTok(0), NumTok(0), NumTok(0)>>,
       <<NumTok(0), NumTok(1), NumTok(0)>>,
       <<NumTok(1), NumTok(0), TextTok>>,
       <<NumTok(1), NumTok(1)>> >>

\* A single line of two points.
LineScan ==
    << <<NumTok(0), NumTok(0), NumTok(0)>>,
       <<NumTok(0), NumTok(1), NumTok(1)>> >>

SampleFiles == {GoodScan, TruncatedScan, LineScan}

Directories ==
    UNION {[1..n -> SampleFiles] : n \in 0..MaxFiles}

Header == [name |-> "", kind |-> "header", cells |-> <<>>]

\* Line 62: [fpath.name, Sa(data), Sz(data), Sq(data), Sp(data), Sv(data)]
stats_row(name, zgrid, r) ==
    [name |-> name, kind |-> "stats",
     cells |-> <<Sa_calc(zgrid, r), Sz_calc(zgrid, r), Sq_calc(zgrid, r),
                 Sp_calc(zgrid, r), Sv_calc(zgrid, r)>>]

\* Lines 63-64: the handler appends [fpath.name, "(processing failed: <class>)"].
on_exception_drop(sheet, name, cls) == sheet

on_exception(sheet, name, cls) ==
    Append(sheet, [name |-> name, kind |-> "failed",
                   cells |-> <<[status |-> cls, num |-> 0, den |-> 0]>>])

MainInit ==
    /\ files \in Directories
    /\ mpc = "start"
    /\ idx = 0
    /\ data = <<>>
    /\ rows = <<>>
    /\ saved = FALSE
    /\ ScanIdle
    /\ StatIdle

\* Lines 48-57: the workbook and its two heading rows.
Setup ==
    /\ mpc = "start"
    /\ rows' = <<Header, Header>>
    /\ mpc' = "loop"
    /\ UNCHANGED <<files, idx, data, saved, scanVars, statVars>>

\* Lines 59-61: the next file is handed to nanovea_data_from_scanpath, which
\* then runs its steps ReadCsv, Reshape and Reconstruct.
OpenFile ==
    /\ mpc = "loop"
    /\ idx < Len(files)
    /\ file' = [name |-> Names[idx + 1], rows |-> files[idx + 1]]
    /\ pc' = "open"
    /\ mpc' = "import"
    /\ UNCHANGED <<gridspec, arr, out, files, idx, data, rows, saved, statVars>>

\* Line 61 when the import returns, lines 63-64 when it raises.
Imported ==
    /\ mpc = "import"
    /\ ScanDone
    /\ IF out.status = "ok"
       THEN /\ data' = out.ZData
            /\ mpc' = "stats"
            /\ UNCHANGED <<rows, idx>>
       ELSE /\ rows' = on_exception(rows, file.name, out.status)
            /\ idx' = idx + 1
            /\ mpc' = "loop"
            /\ UNCHANGED data
    /\ pc' = "idle"
    /\ UNCHANGED <<file, gridspec, arr, out, files, saved, statVars>>

\* Line 62: the five statistics are computed, then the row is appended.  None of
\* the *_calc functions raises on a grid the import returned.
AppendStats ==
    /\ mpc = "stats"
    /\ res' \in MinimizeOutcomes(data)
    /\ rows' = Append(rows, stats_row(file.name, data, res'))
    /\ idx' = idx + 1
    /\ mpc' = "loop"
    /\ UNCHANGED <<files, data, saved, scanVars, zdata, fit, stats>>

\* Line 66: wb.save, once the loop is over.
Save ==
    /\ mpc = "loop"
    /\ idx = Len(files)
    /\ saved' = TRUE
    /\ mpc' = "done"
    /\ UNCHANGED <<files, idx, data, rows, scanVars, statVars>>

MainNext ==
    Setup \/ OpenFile \/ ReadCsv \/ Reshape \/ Reconstruct \/ Imported \/ AppendStats \/ Save

\* main is straight-line code around a loop over a finite list: it keeps running.
MainSpec == MainInit /\ [][MainNext]_vars /\ WF_vars(MainNext)

\* One row per file consumed, each with its file's name, none partial.
RowsInOrder ==
    mpc # "start" =>
        /\ Len(rows) = 2 + idx
        /\ \A k \in 1..idx :
             /\ rows[2 + k].name = Names[k]
             /\ \/ rows[2 + k].kind = "stats" /\ Len(rows[2 + k].cells) = 5
                \/ rows[2 + k].kind = "failed" /\ Len(rows[2 + k].cells) = 1

\* The row just appended is the one its file is owed.
LastRowOwed ==
    (mpc = "loop" /\ idx >= 1) =>
        LET row == rows[2 + idx]
            imp == nanovea_data_from_scanpath(Names[idx], files[idx])
        IN  IF imp.status = "ok"
            THEN /\ row.kind = "stats"
                 /\ data = imp.ZData
                 /\ res \in MinimizeOutcomes(imp.ZData)
                 /\ row = stats_row(Names[idx], imp.ZData, res)
            ELSE /\ row.kind = "failed"
                 /\ row.cells[1].status = imp.status

IsPrefix(s, t) == Len(s) <= Len(t) /\ \A k \in 1..Len(s) : s[k] = t[k]

SavedLast == saved => (idx = Len(files) /\ Len(rows) = 2 + Len(files))

\* C10: main appends exactly one row per .txt file, in iteration order: the
\* statistics row when the import and the five statistics succeed, otherwise one
\* failure row with the file name; a failure neither stops nor skips the
\* remaining files, rows once written stay, and the workbook is eventually
\* saved, after every file.
C10_OneRowPerFile ==
    /\ [](RowsInOrder /\ LastRowOwed /\ SavedLast)
    /\ [][IsPrefix(rows, rows')]_vars
    /\ <>saved

\* A failed file followed by a processed one, then the save.
C10_Witness ==
    /\ saved
    /\ Len(files) = 2
    /\ rows[3].kind = "failed"
    /\ rows[4].kind = "stats"
    /\ rows[4].name = "b.txt"
    /\ rows[4].cells[3].den = 3

====
